---- MODULE Spec2Model ----
(***************************************************************************)
(* Model of sqlxcache (src/sqlxcache.go, the version whose Tx carries its  *)
(* own stmts / namedStmts maps, lines 548-1210).                           *)
(*                                                                         *)
(* Cache keeps two maps from query text to a prepared statement, each      *)
(* behind its own sync.Mutex.  Tx keeps two unguarded maps from query text *)
(* to the statement re-bound into the transaction.  Every forwarding       *)
(* operation resolves a statement and then executes it.                    *)
(*                                                                         *)
(* A goroutine runs one forwarding operation at a time.  Its steps are the *)
(* points where other goroutines can interleave: waiting for the mutex,    *)
(* the driver's prepare round-trip (mutex held), the re-bind into the      *)
(* transaction, and the execution of the resolved statement.               *)
(***************************************************************************)
EXTENDS Integers, FiniteSets, Sequences, TLC

\* ---------------------------------------------------------------- bounds
NumThreads == 2
NumTx == 2
MaxOps == 2

Threads == 1..NumThreads
Txs == 1..NumTx
NoThread == 0
PoolScope == 0

\* The two query texts of the test database: an insert of id=1 and the
\* select of it.  Exec-style operations run the insert, Get-style the select.
Queries == {"INSERT", "SELECT"}
Namespaces == {"pos", "named"}
Row == "id=1"

NoErr == "nil"
NoStmt == [kind |-> "none"]
NoOp == [scope |-> PoolScope, ns |-> "pos", ctx |-> FALSE, query |-> "none"]

VARIABLES
    stmts,           \* Cache.stmts: query -> *sqlx.Stmt
    namedStmts,      \* Cache.namedStmts: query -> *sqlx.NamedStmt
    stmtsLock,       \* Cache.stmtsLock: the goroutine holding it, or NoThread
    namedStmtsLock,  \* Cache.namedStmtsLock
    dbClosed,        \* Cache.db has been closed
    txState,         \* per Tx: "unused" | "open" | "committed" | "rolledback"
    txStmts,         \* Tx.stmts
    txNamedStmts,    \* Tx.namedStmts
    pc,              \* per goroutine: position inside its forwarding operation,
                     \* or "fatal" once the runtime has ended the process
    op,              \* per goroutine: the operation it runs
    cancelled,       \* per goroutine: the ctx of its operation is cancelled
    handle,          \* per goroutine: the statement its resolve returned
    ran,             \* per goroutine: the statement its operation executed
    err,             \* per goroutine: the error its operation returns
    ops,             \* number of forwarding operations started
    prepareCalls,    \* driver: prepare calls issued, per <<namespace, query>>
    prepareErrs,     \* driver: prepare calls that returned an error
    prepared,        \* driver: statements successfully prepared
    bound,           \* driver: statements re-bound into a transaction
    rows,            \* database: committed rows of test_object
    txRows,          \* database: rows written inside each transaction
    autoInserted     \* database: a row was written outside any transaction

vars == <<stmts, namedStmts, stmtsLock, namedStmtsLock, dbClosed, txState,
          txStmts, txNamedStmts, pc, op, cancelled, handle, ran, err, ops,
          prepareCalls, prepareErrs, prepared, bound, rows, txRows,
          autoInserted>>

cacheVars == <<stmts, namedStmts, stmtsLock, namedStmtsLock>>
txVars == <<txState, txStmts, txNamedStmts>>
driverVars == <<prepareCalls, prepareErrs, prepared>>
dataVars == <<rows, txRows, autoInserted>>

EmptyMap == [q \in Queries |-> NoStmt]

\* ------------------------------------------------------------ the maps
\* One map serving both namespaces.
Pool_Shared(ns) == stmts

Pool(ns) == IF ns = "pos" THEN stmts ELSE namedStmts
\* One mutex guarding both maps.
PoolLock_Shared(ns) == stmtsLock

PoolLock(ns) == IF ns = "pos" THEN stmtsLock ELSE namedStmtsLock
\* One transaction-level map shared by every Tx of the Cache.
TxMap_Shared(x, ns) == IF ns = "pos" THEN txStmts[1] ELSE txNamedStmts[1]

TxMap(x, ns) == IF ns = "pos" THEN txStmts[x] ELSE txNamedStmts[x]

\* A lookup that never finds the entry.
Lookup_Miss(m, query) == NoStmt

\* value, ok := c.stmts[query]
Lookup(m, query) == m[query]

\* A store that replaces the map by one holding the new entry alone.
Store_Evict(m, query, s) == [q \in Queries |-> IF q = query THEN s ELSE NoStmt]

\* A store that files the statement under the other query text.
Store_Misfiled(m, query, s) ==
    [q \in Queries |-> IF q # query /\ m[q] = NoStmt THEN s ELSE m[q]]

\* c.stmts[query] = stmt
Store(m, query, s) == [m EXCEPT ![query] = s]

\* A resolve that does not wait for the mutex.
CanLock_NoMutex(l) == TRUE

\* c.stmtsLock.Lock() can proceed
CanLock(l) == l = NoThread

\* what the driver hands back for a successful prepare: a fresh statement
NewStmt(ns, query) ==
    [kind |-> "stmt", ns |-> ns, query |-> query,
     id |-> Cardinality({s \in prepared : s.ns = ns /\ s.query = query}) + 1]

\* No re-bind: the pool-level statement is used inside the transaction as is.
Stmtx_NoRebind(x, s) == s

\* tx.tx.Stmtx(cachedStmt): the statement re-bound into transaction x.  The
\* call has no error result; binding into a finished transaction yields a
\* statement that carries the error and fails when executed.
Stmtx(x, s) ==
    [kind |-> "txstmt", tx |-> x, parent |-> s, err |-> (txState[x] # "open"),
     id |-> Cardinality({b \in bound : b.tx = x /\ b.parent = s}) + 1]

PrepareOk(ns, query) ==
    Cardinality({s \in prepared : s.ns = ns /\ s.query = query})

Init ==
    /\ stmts = EmptyMap
    /\ namedStmts = EmptyMap
    /\ stmtsLock = NoThread
    /\ namedStmtsLock = NoThread
    /\ dbClosed = FALSE
    /\ txState = [x \in Txs |-> "unused"]
    /\ txStmts = [x \in Txs |-> EmptyMap]
    /\ txNamedStmts = [x \in Txs |-> EmptyMap]
    /\ pc = [t \in Threads |-> "idle"]
    /\ op = [t \in Threads |-> NoOp]
    /\ cancelled = [t \in Threads |-> FALSE]
    /\ handle = [t \in Threads |-> NoStmt]
    /\ ran = [t \in Threads |-> NoStmt]
    /\ err = [t \in Threads |-> NoErr]
    /\ ops = 0
    /\ prepareCalls = [k \in Namespaces \X Queries |-> 0]
    /\ prepareErrs = [k \in Namespaces \X Queries |-> 0]
    /\ prepared = {}
    /\ bound = {}
    /\ rows = {}
    /\ txRows = [x \in Txs |-> {}]
    /\ autoInserted = FALSE

\* ------------------------------------------------- forwarding operations
\* A goroutine is inside a method of Tx x.
Busy(x) == \E u \in Threads : pc[u] \notin {"idle", "done"} /\ op[u].scope = x

\* A goroutine calls one of the public methods of Cache (Exec, Get, ... and
\* their Named and Context variants) or of a Tx that Begin has returned.
\* Every one of them starts by resolving its statement: Cache methods go
\* straight to c.stmt & co., Tx methods to tx.stmt & co.  Goroutines have no
\* identity of their own, so a call runs on the lowest idle one.
CallOn(t, scopes) ==
    /\ pc[t] = "idle"
    /\ \A u \in Threads : u < t => pc[u] # "idle"
    /\ ops < MaxOps
    /\ \E scope \in scopes, ns \in Namespaces, ctx \in BOOLEAN, query \in Queries :
          /\ op' = [op EXCEPT ![t] = [scope |-> scope, ns |-> ns, ctx |-> ctx,
                                      query |-> query]]
          /\ pc' = [pc EXCEPT ![t] = IF scope = PoolScope THEN "lock" ELSE "txlookup"]
    /\ ops' = ops + 1
    /\ UNCHANGED <<cacheVars, dbClosed, txVars, cancelled, handle, ran, err,
                   driverVars, bound, dataVars>>

\* The Cache is shared by all goroutines; a Tx is driven by one logical flow,
\* its methods (Commit and Rollback included) called one after the other.
Call(t) ==
    CallOn(t, {PoolScope} \cup {x \in Txs : txState[x] # "unused" /\ ~Busy(x)})

\* The method has returned to its caller, which drops what it got.
Return(t) ==
    /\ pc[t] = "done"
    /\ pc' = [pc EXCEPT ![t] = "idle"]
    /\ op' = [op EXCEPT ![t] = NoOp]
    /\ cancelled' = [cancelled EXCEPT ![t] = FALSE]
    /\ handle' = [handle EXCEPT ![t] = NoStmt]
    /\ ran' = [ran EXCEPT ![t] = NoStmt]
    /\ err' = [err EXCEPT ![t] = NoErr]
    /\ UNCHANGED <<cacheVars, dbClosed, txVars, ops, driverVars, bound, dataVars>>

\* The caller cancels the context it passed to a Context variant.
Cancel(t) ==
    /\ pc[t] \notin {"idle", "done", "fatal"}
    /\ op[t].ctx
    /\ ~cancelled[t]
    /\ cancelled' = [cancelled EXCEPT ![t] = TRUE]
    /\ UNCHANGED <<cacheVars, dbClosed, txVars, pc, op, handle, ran, err, ops,
                   driverVars, bound, dataVars>>

\* --------------------------------------------- executing the statement
\* The transaction a statement runs in: a statement re-bound by Stmtx runs
\* in the transaction it was bound to, a pool-level one in none (PoolScope).
RunsIn(s) == IF s.kind = "txstmt" THEN s.tx ELSE PoolScope

\* A statement can run while the database is open and, for a re-bound one,
\* while its transaction is open and the re-bind (and every re-bind below
\* it) carried no error.
RECURSIVE Usable(_)
Usable(s) ==
    /\ ~dbClosed
    /\ s.kind = "txstmt" =>
          /\ ~s.err
          /\ txState[s.tx] = "open"
          /\ (s.parent.kind = "txstmt" => Usable(s.parent))

\* The rows a statement sees: the committed ones and, inside a transaction,
\* the ones the transaction has written.
Visible(s) == IF RunsIn(s) = PoolScope THEN rows ELSE rows \cup txRows[RunsIn(s)]

\* The error of the driver's execute / query primitive on statement s.
ExecError(t, s) ==
    IF op[t].ctx /\ cancelled[t] THEN "Canceled"
    ELSE IF ~Usable(s) THEN "ExecutionError"
    ELSE IF op[t].query = "INSERT" /\ Row \in Visible(s) THEN "ExecutionError"
    ELSE IF op[t].query = "SELECT" /\ Row \notin Visible(s) THEN "NoRows"
    ELSE NoErr

\* An execution whose driver error reaches the caller replaced by another.
Run_Masked(t, s) ==
    LET e == ExecError(t, s)
        writes == e = NoErr /\ op[t].query = "INSERT"
    IN  /\ err' = [err EXCEPT ![t] = IF e = NoErr THEN NoErr ELSE "Failed"]
        /\ ran' = [ran EXCEPT ![t] = s]
        /\ rows' = IF writes /\ RunsIn(s) = PoolScope THEN rows \cup {Row} ELSE rows
        /\ autoInserted' = (autoInserted \/ (writes /\ RunsIn(s) = PoolScope))
        /\ txRows' = IF writes /\ RunsIn(s) # PoolScope
                     THEN [txRows EXCEPT ![RunsIn(s)] = @ \cup {Row}]
                     ELSE txRows
        /\ pc' = [pc EXCEPT ![t] = "done"]

\* The driver runs statement s for t: an insert writes the row where the
\* statement runs, a select reads it; the method returns the driver's error.
Run(t, s) ==
    LET e == ExecError(t, s)
        writes == e = NoErr /\ op[t].query = "INSERT"
    IN  /\ err' = [err EXCEPT ![t] = e]
        /\ ran' = [ran EXCEPT ![t] = s]
        /\ rows' = IF writes /\ RunsIn(s) = PoolScope THEN rows \cup {Row} ELSE rows
        /\ autoInserted' = (autoInserted \/ (writes /\ RunsIn(s) = PoolScope))
        /\ txRows' = IF writes /\ RunsIn(s) # PoolScope
                     THEN [txRows EXCEPT ![RunsIn(s)] = @ \cup {Row}]
                     ELSE txRows
        /\ pc' = [pc EXCEPT ![t] = "done"]

\* Tx.NamedGet, Tx.NamedGetContext, Tx.NamedSelect and Tx.NamedSelectContext
\* are the methods that run the select of the named namespace on a Tx.
IsTxNamedGet(o) == o.scope # PoolScope /\ o.ns = "named" /\ o.query = "SELECT"

\* Cache.Exec, Cache.Get, ...: return stmt.Exec(args...) on the statement s
\* that c.stmt returned.
CacheExecute(t, s) ==
    /\ handle' = [handle EXCEPT ![t] = s]
    /\ Run(t, s)
    /\ UNCHANGED bound

\* Tx.Exec, Tx.Get, ...: return stmt.Exec(args...) on the statement s that
\* tx.stmt returned; b are the statements tx.stmt has just re-bound.
\* Tx.NamedGet & co.: return tx.tx.NamedStmt(namedStmt).Get(dest, arg), which
\* re-binds the resolved statement once more and executes that.
TxExecute(t, s, b) ==
    LET again == Stmtx(op[t].scope, s)
    IN  /\ handle' = [handle EXCEPT ![t] = s]
        /\ IF IsTxNamedGet(op[t])
           THEN Run(t, again) /\ bound' = bound \cup b \cup {again}
           ELSE Run(t, s) /\ bound' = bound \cup b

\* ------------------------------------------------ pool-level resolution
SetPool(ns, m) ==
    /\ stmts' = IF ns = "pos" THEN m ELSE stmts
    /\ namedStmts' = IF ns = "named" THEN m ELSE namedStmts

\* An Unlock that is skipped: once taken, the mutex stays with its holder.
SetLock_Leak(ns, holder) ==
    /\ stmtsLock' = IF ns = "pos" /\ holder # NoThread THEN holder ELSE stmtsLock
    /\ namedStmtsLock' = IF ns = "named" /\ holder # NoThread THEN holder
                         ELSE namedStmtsLock

\* A Lock that is never taken: the prepare round-trip runs unguarded.
SetLock_Skip(ns, holder) == UNCHANGED <<stmtsLock, namedStmtsLock>>

SetLock(ns, holder) ==
    /\ stmtsLock' = IF ns = "pos" THEN holder ELSE stmtsLock
    /\ namedStmtsLock' = IF ns = "named" THEN holder ELSE namedStmtsLock

\* return value, nil / return stmt, nil: a Cache method executes the
\* statement, a Tx method (tx.stmt) goes on to re-bind it.
ReturnStmt(t, s) ==
    IF op[t].scope = PoolScope
    THEN CacheExecute(t, s)
    ELSE /\ handle' = [handle EXCEPT ![t] = s]
         /\ pc' = [pc EXCEPT ![t] = "bind"]
         /\ UNCHANGED <<ran, err, bound, dataVars>>

\* A resolve error that reaches the caller wrapped into another error.
ReturnErr_Wrapped(t, e) ==
    /\ err' = [err EXCEPT ![t] = "ResolveError"]
    /\ pc' = [pc EXCEPT ![t] = "done"]
    /\ UNCHANGED <<handle, ran, bound, dataVars>>

\* return nil, err -- which every caller of the resolve returns unchanged
ReturnErr(t, e) ==
    /\ err' = [err EXCEPT ![t] = e]
    /\ pc' = [pc EXCEPT ![t] = "done"]
    /\ UNCHANGED <<handle, ran, bound, dataVars>>

\* The error a prepare call returns at once, before any round-trip: the
\* database is closed, or the context handed to it is already cancelled.
PrepareRefused(t) ==
    IF dbClosed THEN "Closed"
    ELSE IF op[t].ctx /\ cancelled[t] THEN "Canceled"
    ELSE NoErr

\* Lock(); value, ok := map[query]; if ok { return value, nil }; otherwise
\* the driver's prepare is called with the lock held.
ResolveLock(t) ==
    LET ns == op[t].ns
        query == op[t].query
        value == Lookup(Pool(ns), query)
        k == <<ns, query>>
    IN  /\ pc[t] = "lock"
        /\ CanLock(PoolLock(ns))
        /\ IF value # NoStmt
           THEN /\ ReturnStmt(t, value)
                /\ UNCHANGED <<stmtsLock, namedStmtsLock, prepareCalls, prepareErrs>>
           ELSE /\ prepareCalls' = [prepareCalls EXCEPT ![k] = @ + 1]
                /\ IF PrepareRefused(t) # NoErr
                   THEN /\ ReturnErr(t, PrepareRefused(t))
                        /\ prepareErrs' = [prepareErrs EXCEPT ![k] = @ + 1]
                        /\ UNCHANGED <<stmtsLock, namedStmtsLock>>
                   ELSE /\ SetLock(ns, t)
                        /\ pc' = [pc EXCEPT ![t] = "prepare"]
                        /\ UNCHANGED <<handle, ran, err, prepareErrs, bound, dataVars>>
        /\ UNCHANGED <<stmts, namedStmts, dbClosed, txVars, op, cancelled, ops,
                       prepared>>

\* The store done before the error check: a failed prepare is stored too.
Stored_Always(m, query, s, e) == Store(m, query, s)

\* if err != nil { return nil, err }; c.stmts[query] = stmt: the map after a
\* prepare that returned statement s or error e.
Stored(m, query, s, e) == IF e = NoErr THEN Store(m, query, s) ELSE m

\* The outcomes of a prepare round-trip: the driver accepts the query, or
\* rejects it, or (Context variants) gives up because the context was
\* cancelled meanwhile.
PrepareOutcomes(t) ==
    {NoErr, "PrepareError"} \cup (IF op[t].ctx /\ cancelled[t] THEN {"Canceled"} ELSE {})

\* stmt, err := c.db.Preparex(query); if err != nil { return nil, err };
\* map[query] = stmt; return stmt, nil -- and the deferred Unlock().
ResolvePrepared(t) ==
    LET ns == op[t].ns
        query == op[t].query
        k == <<ns, query>>
        s == NewStmt(ns, query)
    IN  /\ pc[t] = "prepare"
        /\ \E e \in PrepareOutcomes(t) :
              /\ SetPool(ns, Stored(Pool(ns), query, s, e))
              /\ IF e = NoErr
                 THEN /\ prepared' = prepared \cup {s}
                      /\ ReturnStmt(t, s)
                      /\ UNCHANGED prepareErrs
                 ELSE /\ ReturnErr(t, e)
                      /\ prepareErrs' = [prepareErrs EXCEPT ![k] = @ + 1]
                      /\ UNCHANGED prepared
        /\ SetLock(ns, NoThread)
        /\ UNCHANGED <<dbClosed, txVars, op, cancelled, ops, prepareCalls>>

stmt(t) == op[t].ns = "pos" /\ ~op[t].ctx /\ ResolveLock(t)
stmtContext(t) == op[t].ns = "pos" /\ op[t].ctx /\ ResolveLock(t)
namedStmt(t) == op[t].ns = "named" /\ ~op[t].ctx /\ ResolveLock(t)
namedStmtContext(t) == op[t].ns = "named" /\ op[t].ctx /\ ResolveLock(t)

Preparex(t) == op[t].ns = "pos" /\ ~op[t].ctx /\ ResolvePrepared(t)
PreparexContext(t) == op[t].ns = "pos" /\ op[t].ctx /\ ResolvePrepared(t)
PrepareNamed(t) == op[t].ns = "named" /\ ~op[t].ctx /\ ResolvePrepared(t)
PrepareNamedContext(t) == op[t].ns = "named" /\ op[t].ctx /\ ResolvePrepared(t)

\* ------------------------------------------- transaction-level resolution
SetTxMap(x, ns, m) ==
    /\ txStmts' = IF ns = "pos" THEN [txStmts EXCEPT ![x] = m] ELSE txStmts
    /\ txNamedStmts' = IF ns = "named" THEN [txNamedStmts EXCEPT ![x] = m]
                       ELSE txNamedStmts

\* stmt, ok := tx.stmts[query]; if ok { return stmt, nil }; otherwise the
\* pool-level resolve of the owning Cache is called.  No lock is taken.
TxLookup(t) ==
    LET x == op[t].scope
        value == Lookup(TxMap(x, op[t].ns), op[t].query)
    IN  /\ pc[t] = "txlookup"
        /\ IF value # NoStmt
           THEN TxExecute(t, value, {})
           ELSE /\ pc' = [pc EXCEPT ![t] = "lock"]
                /\ UNCHANGED <<handle, ran, err, bound, dataVars>>
        /\ UNCHANGED <<cacheVars, dbClosed, txVars, op, cancelled, ops, driverVars>>

\* stmt = tx.tx.Stmtx(cachedStmt); tx.stmts[query] = stmt; return stmt, nil
TxBind(t) ==
    LET x == op[t].scope
        ns == op[t].ns
        s == Stmtx(x, handle[t])
    IN  /\ pc[t] = "bind"
        /\ SetTxMap(x, ns, Store(TxMap(x, ns), op[t].query, s))
        /\ TxExecute(t, s, {s})
        /\ UNCHANGED <<cacheVars, dbClosed, txState, op, cancelled, ops, driverVars>>

\* ------------------------------------ transactions and the connection
\* A Tx that starts out with the positional map of its Cache.
NewTxMap_Shared == stmts

\* stmts: map[string]*sqlx.Stmt{}, namedStmts: map[string]*sqlx.NamedStmt{}
NewTxMap == EmptyMap

\* Cache.Begin / Cache.BeginTx: a new Tx with two empty maps.
Begin(t) ==
    /\ pc[t] = "idle"
    /\ ~dbClosed
    /\ \E x \in Txs :
          /\ txState[x] = "unused"
          /\ \A y \in Txs : y < x => txState[y] # "unused"
          /\ txState' = [txState EXCEPT ![x] = "open"]
          /\ txStmts' = [txStmts EXCEPT ![x] = NewTxMap]
          /\ txNamedStmts' = [txNamedStmts EXCEPT ![x] = NewTxMap]
    /\ UNCHANGED <<cacheVars, dbClosed, pc, op, cancelled, handle, ran, err, ops,
                   driverVars, bound, dataVars>>

\* Cache.Begin / Cache.BeginTx on a closed database: tx, err :=
\* c.db.Beginx(); if err != nil { return nil, err } -- no Tx is made.
BeginFails(t) ==
    /\ pc[t] = "idle"
    /\ \A u \in Threads : u < t => pc[u] # "idle"
    /\ dbClosed
    /\ pc' = [pc EXCEPT ![t] = "done"]
    /\ err' = [err EXCEPT ![t] = "TransactionError"]
    /\ UNCHANGED <<cacheVars, dbClosed, txVars, op, cancelled, handle, ran, ops,
                   driverVars, bound, dataVars>>

\* Tx.Commit: return tx.tx.Commit()
Commit(t, x) ==
    /\ pc[t] = "idle"
    /\ txState[x] = "open"
    /\ ~Busy(x)
    /\ txState' = [txState EXCEPT ![x] = "committed"]
    /\ rows' = IF dbClosed THEN rows ELSE rows \cup txRows[x]
    /\ UNCHANGED <<cacheVars, dbClosed, txStmts, txNamedStmts, pc, op, cancelled,
                   handle, ran, err, ops, driverVars, bound, txRows, autoInserted>>

\* Tx.Rollback: return tx.tx.Rollback()
Rollback(t, x) ==
    /\ pc[t] = "idle"
    /\ txState[x] = "open"
    /\ ~Busy(x)
    /\ txState' = [txState EXCEPT ![x] = "rolledback"]
    /\ UNCHANGED <<cacheVars, dbClosed, txStmts, txNamedStmts, pc, op, cancelled,
                   handle, ran, err, ops, driverVars, bound, dataVars>>

\* A Close that also empties the two pool maps.
Close_Purge(t) ==
    /\ pc[t] = "idle"
    /\ ~dbClosed
    /\ dbClosed' = TRUE
    /\ stmts' = EmptyMap
    /\ namedStmts' = EmptyMap
    /\ UNCHANGED <<stmtsLock, namedStmtsLock, txVars, pc, op, cancelled, handle,
                   ran, err, ops, driverVars, bound, dataVars>>

\* Cache.Close: return c.db.Close()
Close(t) ==
    /\ pc[t] = "idle"
    /\ ~dbClosed
    /\ dbClosed' = TRUE
    /\ UNCHANGED <<cacheVars, txVars, pc, op, cancelled, handle, ran, err, ops,
                   driverVars, bound, dataVars>>

Next ==
    \E t \in Threads :
        \/ Call(t)
        \/ Return(t)
        \/ Cancel(t)
        \/ stmt(t)
        \/ stmtContext(t)
        \/ namedStmt(t)
        \/ namedStmtContext(t)
        \/ Preparex(t)
        \/ PreparexContext(t)
        \/ PrepareNamed(t)
        \/ PrepareNamedContext(t)
        \/ TxLookup(t)
        \/ TxBind(t)
        \/ Begin(t)
        \/ BeginFails(t)
        \/ Close(t)
        \/ \E x \in Txs : Commit(t, x) \/ Rollback(t, x)

Spec == Init /\ [][Next]_vars

\* The steps goroutine t takes by itself once inside a method: lock and
\* look up, come back from the prepare call, look up in the Tx, re-bind.
Step(t) == ResolveLock(t) \/ ResolvePrepared(t) \/ TxLookup(t) \/ TxBind(t)

\* Every goroutine is scheduled, and every prepare call returns.
SpecFair == Spec /\ \A t \in Threads : WF_vars(Step(t))

\* ------------------------------------- one Tx used by several goroutines
\* Nothing in Tx keeps two goroutines from calling its methods at once.
CallShared(t) == CallOn(t, {PoolScope} \cup {x \in Txs : txState[x] # "unused"})

\* Goroutine t is about to read (tx.stmts[query]) or to write
\* (tx.stmts[query] = stmt) a map of its Tx.
AtTxMap(t) == op[t].scope # PoolScope /\ pc[t] \in {"txlookup", "bind"}

\* Goroutine t is about to access a map of its Tx while another goroutine is
\* about to write the same map: Tx has no mutex, so nothing orders the two
\* accesses and they can overlap.
TxMapRace(t) ==
    /\ AtTxMap(t)
    /\ \E u \in Threads \ {t} :
          /\ pc[u] = "bind"
          /\ op[u].scope = op[t].scope
          /\ op[u].ns = op[t].ns

\* Overlapping accesses to a Go map, one of them a write, are a data race.
\* Either they take effect one after the other, in either order (TxLookup
\* and TxBind interleaved), or the runtime detects the overlap and ends the
\* process ("fatal error: concurrent map read and map write", "concurrent
\* map writes").
TxRace(t) ==
    /\ TxMapRace(t)
    /\ pc' = [u \in Threads |-> "fatal"]
    /\ UNCHANGED <<cacheVars, dbClosed, txVars, op, cancelled, handle, ran, err,
                   ops, driverVars, bound, dataVars>>

NextShared ==
    \E t \in Threads :
        \/ CallShared(t)
        \/ Return(t)
        \/ Cancel(t)
        \/ stmt(t)
        \/ stmtContext(t)
        \/ namedStmt(t)
        \/ namedStmtContext(t)
        \/ Preparex(t)
        \/ PreparexContext(t)
        \/ PrepareNamed(t)
        \/ PrepareNamedContext(t)
        \/ TxLookup(t)
        \/ TxBind(t)
        \/ TxRace(t)
        \/ Begin(t)
        \/ BeginFails(t)
        \/ Close(t)
        \/ \E x \in Txs : Commit(t, x) \/ Rollback(t, x)

SpecSharedTx == Init /\ [][NextShared]_vars

\* --------------------------------------------- the Tx without its own maps
\* The other Tx of the source (src/sqlxcache.go:113-322) has the fields c and
\* tx only.  Each of its methods calls the resolve of the Cache and executes
\* the re-bound statement: stmt, err := tx.c.stmt(query).
TxCallsPool(t) ==
    /\ pc[t] = "txlookup"
    /\ pc' = [pc EXCEPT ![t] = "lock"]
    /\ UNCHANGED <<cacheVars, dbClosed, txVars, op, cancelled, handle, ran, err,
                   ops, driverVars, bound, dataVars>>

\* return tx.tx.Stmtx(stmt).Exec(args...): re-bind, execute, keep nothing.
TxStmtxExec(t) ==
    LET s == Stmtx(op[t].scope, handle[t])
    IN  /\ pc[t] = "bind"
        /\ handle' = [handle EXCEPT ![t] = s]
        /\ Run(t, s)
        /\ bound' = bound \cup {s}
        /\ UNCHANGED <<cacheVars, dbClosed, txVars, op, cancelled, ops, driverVars>>

NextNoTxMaps ==
    \E t \in Threads :
        \/ Call(t)
        \/ Return(t)
        \/ Cancel(t)
        \/ stmt(t)
        \/ stmtContext(t)
        \/ namedStmt(t)
        \/ namedStmtContext(t)
        \/ Preparex(t)
        \/ PreparexContext(t)
        \/ PrepareNamed(t)
        \/ PrepareNamedContext(t)
        \/ TxCallsPool(t)
        \/ TxStmtxExec(t)
        \/ Begin(t)
        \/ BeginFails(t)
        \/ Close(t)
        \/ \E x \in Txs : Commit(t, x) \/ Rollback(t, x)

SpecNoTxMaps == Init /\ [][NextNoTxMaps]_vars

\* ================================================================ claims
\* The statement the pool-level resolve handed to goroutine t: the resolved
\* statement itself for a Cache method, the statement it was re-bound from
\* for a Tx method.
PoolResolved(t) ==
    IF handle[t].kind = "txstmt" THEN handle[t].parent ELSE handle[t]

\* The resolve of goroutine t has failed: its method has returned an error
\* without executing anything.
ResolveFailed(t) ==
    pc[t] = "done" /\ op[t].query \in Queries /\ ran[t] = NoStmt /\ err[t] # NoErr

\* C1 -- at-most-once preparation: as long as no prepare of query q in
\* namespace ns has failed, at most one prepare call has been issued for it,
\* and every goroutine whose resolve of q has returned holds the one handle
\* stored in the pool map, for which exactly one prepare call was issued.
AtMostOncePreparation ==
    \A ns \in Namespaces, q \in Queries :
        prepareErrs[<<ns, q>>] = 0 =>
            /\ prepareCalls[<<ns, q>>] <= 1
            /\ \A t \in Threads :
                  (op[t].ns = ns /\ op[t].query = q /\ handle[t] # NoStmt) =>
                      /\ prepareCalls[<<ns, q>>] = 1
                      /\ PoolResolved(t) = Pool(ns)[q]

\* Every goroutine has resolved the same query of the same namespace on the
\* pool, some through the plain and some through the Context variant, and
\* they all hold the same handle after a single prepare call.
AtMostOnceWitness ==
    \E ns \in Namespaces, q \in Queries :
        /\ \A t \in Threads :
              /\ pc[t] = "done"
              /\ op[t].scope = PoolScope
              /\ op[t].ns = ns
              /\ op[t].query = q
              /\ handle[t] = Pool(ns)[q]
              /\ handle[t] # NoStmt
        /\ \E t, u \in Threads : op[t].ctx /\ ~op[u].ctx
        /\ prepareCalls[<<ns, q>>] = 1

\* C2 -- pool cache entries are stable: in every step, an entry the pool
\* map holds is still there, unchanged, afterwards; no prepare call is issued
\* for a query once one has succeeded; so at most one prepare per namespace
\* and query ever succeeds.
PoolEntriesStable ==
    [][\A ns \in Namespaces, q \in Queries :
          /\ Pool(ns)[q] # NoStmt => Pool(ns)'[q] = Pool(ns)[q]
          /\ PrepareOk(ns, q) >= 1 =>
                prepareCalls'[<<ns, q>>] = prepareCalls[<<ns, q>>]
          /\ PrepareOk(ns, q)' <= 1]_vars

\* An entry has survived a later resolve of the same query, a rollback and
\* the close of the connection.
PoolEntriesStableWitness ==
    \E ns \in Namespaces, q \in Queries, t \in Threads :
        /\ Pool(ns)[q] # NoStmt
        /\ dbClosed
        /\ \E x \in Txs : txState[x] = "rolledback"
        /\ ops = MaxOps
        /\ pc[t] = "done" /\ op[t].ns = ns /\ op[t].query = q
        /\ PoolResolved(t) = Pool(ns)[q]
        /\ prepareCalls[<<ns, q>>] = 1

\* C3 -- failure is not cached: a step in which a resolve returns the
\* driver's prepare error leaves both pool maps unchanged, with no entry for
\* the query, and the error is that of a prepare call issued for this very
\* resolve; a resolve that finds no entry always issues a prepare call,
\* whatever failed before; and a prepare that succeeds is stored and
\* returned.
FailureNotCached ==
    [][\A t \in Threads :
          LET ns == op[t].ns
              q == op[t].query
              k == <<ns, q>>
          IN  /\ (pc[t] \in {"lock", "prepare"} /\ ResolveFailed(t)') =>
                    /\ stmts' = stmts
                    /\ namedStmts' = namedStmts
                    /\ Pool(ns)'[q] = NoStmt
                    /\ prepareErrs'[k] = prepareErrs[k] + 1
              /\ (pc[t] = "lock" /\ pc'[t] # "lock" /\ Pool(ns)[q] = NoStmt) =>
                    prepareCalls'[k] = prepareCalls[k] + 1
              /\ (pc[t] = "prepare" /\ pc'[t] # "prepare" /\ ~ResolveFailed(t)') =>
                    /\ Pool(ns)'[q] # NoStmt
                    /\ PoolResolved(t)' = Pool(ns)'[q]]_vars

\* A prepare of q has failed, a second resolve of q has prepared it again
\* with success, and the caller holds the stored handle.
FailureNotCachedWitness ==
    \E ns \in Namespaces, q \in Queries, t \in Threads :
        /\ prepareErrs[<<ns, q>>] = 1
        /\ prepareCalls[<<ns, q>>] = 2
        /\ Pool(ns)[q] # NoStmt
        /\ pc[t] = "done" /\ op[t].ns = ns /\ op[t].query = q
        /\ handle[t] = Pool(ns)[q]

\* C4 -- namespace independence: the positional map holds positional
\* statements only and the named map named ones, so the two entries of one
\* query text are distinct; when both exist and no prepare of the text has
\* failed, exactly one positional and one named prepare call were issued; a
\* positional resolve leaves the named map, lock and prepare counts alone and
\* misses exactly when the positional map has no entry, and the same with the
\* two namespaces exchanged.
NamespaceIndependence ==
    [][/\ \A q \in Queries :
             /\ stmts'[q] # NoStmt => stmts'[q].ns = "pos"
             /\ namedStmts'[q] # NoStmt => namedStmts'[q].ns = "named"
             /\ (stmts'[q] # NoStmt /\ namedStmts'[q] # NoStmt) =>
                   /\ stmts'[q] # namedStmts'[q]
                   /\ (prepareErrs'[<<"pos", q>>] = 0 =>
                          prepareCalls'[<<"pos", q>>] = 1)
                   /\ (prepareErrs'[<<"named", q>>] = 0 =>
                          prepareCalls'[<<"named", q>>] = 1)
       /\ \A t \in Threads :
             LET ns == op[t].ns
                 q == op[t].query
                 other == IF ns = "pos" THEN "named" ELSE "pos"
             IN  (pc[t] \in {"lock", "prepare"} /\ pc'[t] # pc[t]) =>
                    /\ Pool(other)' = Pool(other)
                    /\ PoolLock(other)' = PoolLock(other)
                    /\ \A r \in Queries :
                          prepareCalls'[<<other, r>>] = prepareCalls[<<other, r>>]
                    /\ (pc[t] = "lock" /\ Pool(ns)[q] = NoStmt) =>
                          prepareCalls'[<<ns, q>>] = prepareCalls[<<ns, q>>] + 1
                    /\ (pc[t] = "lock" /\ Pool(ns)[q] # NoStmt) =>
                          /\ prepareCalls' = prepareCalls
                          /\ PoolResolved(t)' = Pool(ns)[q]]_vars

\* The same text has been resolved once as positional and once as named:
\* two distinct entries, one prepare call each.
NamespaceIndependenceWitness ==
    \E q \in Queries :
        /\ stmts[q] # NoStmt
        /\ namedStmts[q] # NoStmt
        /\ stmts[q] # namedStmts[q]
        /\ prepareCalls[<<"pos", q>>] = 1
        /\ prepareCalls[<<"named", q>>] = 1

\* C5 -- transaction derivation: while the pool map holds an entry for the
\* query of a Tx method, no step of that method issues a prepare call, and
\* the statement its resolve returns is one re-bound into its own
\* transaction from that pool entry, not the pool-level statement.
TransactionDerivation ==
    [][\A t \in Threads :
          LET ns == op[t].ns
              q == op[t].query
          IN  (op[t].scope # PoolScope /\ Pool(ns)[q] # NoStmt /\ pc'[t] # pc[t]) =>
                 /\ prepareCalls' = prepareCalls
                 /\ pc'[t] = "done" =>
                       /\ handle'[t].kind = "txstmt"
                       /\ handle'[t].tx = op[t].scope
                       /\ handle'[t].parent = Pool(ns)[q]
                       /\ handle'[t] # Pool(ns)[q]]_vars

\* A Tx method has resolved, by a re-bind of its own, a query that the pool
\* had prepared before: one prepare call in all.
TransactionDerivationWitness ==
    \E t \in Threads :
        /\ pc[t] = "done"
        /\ op[t].scope # PoolScope
        /\ ops = 2
        /\ handle[t].kind = "txstmt"
        /\ handle[t] \in bound
        /\ handle[t].parent = Pool(op[t].ns)[op[t].query]
        /\ prepareCalls[<<op[t].ns, op[t].query>>] = 1
        /\ \A k \in Namespaces \X Queries :
              k # <<op[t].ns, op[t].query>> => prepareCalls[k] = 0

\* C6 -- isolation across transactions: the entries two Tx hold for one
\* query are distinct statements, each bound to its own transaction; and a
\* step that commits or rolls back one Tx leaves every other Tx with the
\* same state, the same maps, and its usable statements still usable.
TxIsolation ==
    [][/\ \A x, y \in Txs, ns \in Namespaces, q \in Queries :
             (x # y /\ TxMap(x, ns)'[q] # NoStmt /\ TxMap(y, ns)'[q] # NoStmt) =>
                 /\ TxMap(x, ns)'[q] # TxMap(y, ns)'[q]
                 /\ TxMap(x, ns)'[q].tx = x
                 /\ TxMap(y, ns)'[q].tx = y
       /\ \A x \in Txs :
             (txState[x] = "open" /\ txState'[x] \in {"committed", "rolledback"}) =>
                 \A y \in Txs \ {x} :
                     /\ txState'[y] = txState[y]
                     /\ txStmts'[y] = txStmts[y]
                     /\ txNamedStmts'[y] = txNamedStmts[y]
                     /\ \A ns \in Namespaces, q \in Queries :
                           (TxMap(y, ns)[q] # NoStmt /\ Usable(TxMap(y, ns)[q])) =>
                               Usable(TxMap(y, ns)[q])']_vars

\* Two Tx each hold their own statement for one query; one of the two has
\* been rolled back and the statement of the other is still usable.
TxIsolationWitness ==
    \E x, y \in Txs, ns \in Namespaces, q \in Queries :
        /\ x # y
        /\ TxMap(x, ns)[q] # NoStmt
        /\ TxMap(y, ns)[q] # NoStmt
        /\ TxMap(x, ns)[q] # TxMap(y, ns)[q]
        /\ txState[x] = "rolledback"
        /\ txState[y] = "open"
        /\ Usable(TxMap(y, ns)[q])

\* C7 -- relationship invariant: every entry of a Tx map is the re-binding,
\* into that Tx, of the entry the pool map of the same namespace holds for
\* the same query -- which therefore exists.
TxEntryWrapsPoolEntry ==
    \A x \in Txs, ns \in Namespaces, q \in Queries :
        TxMap(x, ns)[q] # NoStmt =>
            /\ Pool(ns)[q] # NoStmt
            /\ TxMap(x, ns)[q].kind = "txstmt"
            /\ TxMap(x, ns)[q].tx = x
            /\ TxMap(x, ns)[q].parent = Pool(ns)[q]

\* Both maps of a Tx hold an entry, each over the pool's entry.
TxEntryWrapsPoolEntryWitness ==
    \E x \in Txs, q, r \in Queries :
        /\ txStmts[x][q] # NoStmt
        /\ txNamedStmts[x][r] # NoStmt
        /\ txStmts[x][q].parent = stmts[q]
        /\ txNamedStmts[x][r].parent = namedStmts[r]

\* A transaction that has committed the row it wrote.
CommittedWriter == \E x \in Txs : txState[x] = "committed" /\ Row \in txRows[x]

\* C8 -- rollback scenario: every method of a Tx executes a statement bound
\* to that Tx, never a pool-level one; the row is among the committed rows
\* only if it was inserted outside any transaction or the transaction that
\* inserted it has committed; and a pool-level select finds the row only
\* then, so after an insert in a Tx and its rollback it reports no rows.
RollbackLeavesNoRow ==
    /\ \A t \in Threads :
          (op[t].scope # PoolScope /\ ran[t] # NoStmt) =>
              /\ ran[t].kind = "txstmt"
              /\ ran[t].tx = op[t].scope
    /\ Row \in rows => (autoInserted \/ CommittedWriter)
    /\ \A t \in Threads :
          (pc[t] = "done" /\ op[t].scope = PoolScope /\ op[t].query = "SELECT"
             /\ ran[t] # NoStmt /\ err[t] = NoErr) =>
              (autoInserted \/ CommittedWriter)

\* A Tx has inserted the row and has been rolled back, and a pool-level
\* select executed afterwards has reported no rows.
RollbackLeavesNoRowWitness ==
    \E x \in Txs, t \in Threads :
        /\ txState[x] = "rolledback"
        /\ Row \in txRows[x]
        /\ pc[t] = "done"
        /\ op[t].scope = PoolScope
        /\ op[t].query = "SELECT"
        /\ ran[t] = Pool(op[t].ns)["SELECT"]
        /\ ran[t] # NoStmt
        /\ err[t] = "NoRows"

\* C9 -- cancellation leaves no partial entry: when the resolve of a Context
\* variant whose context is cancelled returns an error, the pool map has no
\* entry for the query, the map of the Tx (for a Tx method) has none either,
\* and the lock of the namespace is free.
CancelLeavesNoEntry ==
    [][\A t \in Threads :
          LET ns == op[t].ns
              q == op[t].query
          IN  (op[t].ctx /\ cancelled[t] /\ pc[t] \in {"lock", "prepare"}
                 /\ ResolveFailed(t)') =>
                  /\ Pool(ns)'[q] = NoStmt
                  /\ op[t].scope # PoolScope => TxMap(op[t].scope, ns)'[q] = NoStmt
                  /\ PoolLock(ns)' = NoThread]_vars

\* A Context method of a Tx was cancelled before its prepare call returned
\* and has returned the cancellation error.
CancelLeavesNoEntryWitness ==
    \E t \in Threads :
        /\ ResolveFailed(t)
        /\ op[t].ctx
        /\ cancelled[t]
        /\ err[t] = "Canceled"
        /\ op[t].scope # PoolScope
        /\ prepareErrs[<<op[t].ns, op[t].query>>] = 1
        /\ PoolLock(op[t].ns) = NoThread

\* Goroutine t waits for the lock of its namespace while another goroutine
\* holds it across its prepare round-trip, and t's context is cancelled.
CancelledWaiter(t) ==
    /\ pc[t] = "lock"
    /\ op[t].ctx
    /\ cancelled[t]
    /\ PoolLock(op[t].ns) \in Threads \ {t}
    /\ pc[PoolLock(op[t].ns)] = "prepare"

\* C10 -- cancellation does not hang: a goroutine whose context is cancelled
\* while it waits for the cache lock can return at once, without the
\* holder's prepare having to complete first.
CancelledWaiterReturns ==
    \A t \in Threads : CancelledWaiter(t) => ENABLED ResolveLock(t)

\* The re-bind of goroutine t's resolved statement into its transaction
\* fails: the statement Stmtx hands back carries the error.
BindFails(t) == pc[t] = "bind" /\ Stmtx(op[t].scope, handle[t]).err

\* C11 -- bind failure is not cached: a step in which the re-bind into the
\* transaction fails returns an error to the caller without executing
\* anything and leaves the Tx map without an entry for the query.
BindFailureNotCached ==
    [][\A t \in Threads :
          (BindFails(t) /\ pc'[t] # pc[t]) =>
              /\ ran'[t] = NoStmt
              /\ err'[t] # NoErr
              /\ TxMap(op[t].scope, op[t].ns)'[op[t].query] = NoStmt]_vars

\* C12 -- a Tx entry never outlives its Tx: the step that commits or rolls
\* back a Tx leaves both of its maps empty.
TxMapsEmptiedAtEnd ==
    [][\A x \in Txs :
          (txState[x] = "open" /\ txState'[x] \in {"committed", "rolledback"}) =>
              /\ txStmts'[x] = EmptyMap
              /\ txNamedStmts'[x] = EmptyMap]_vars

\* Goroutine u is inside the driver's prepare for namespace ns.
Preparing(u, ns) == pc[u] = "prepare" /\ op[u].ns = ns

\* C13 -- independent locks: a resolve that is about to take the lock of its
\* namespace can proceed, to a hit or into its prepare call, unless another
\* goroutine is inside a prepare of that same namespace -- whatever goes on
\* in the other namespace; and a prepare call in flight can always return.
IndependentLocks ==
    \A t \in Threads :
        /\ (pc[t] = "lock" /\ ~\E u \in Threads \ {t} : Preparing(u, op[t].ns)) =>
               ENABLED ResolveLock(t)
        /\ pc[t] = "prepare" => ENABLED ResolvePrepared(t)

\* A positional and a named prepare call are in flight at once, each
\* goroutine holding the lock of its own namespace.
IndependentLocksWitness ==
    \E t, u \in Threads :
        /\ t # u
        /\ Preparing(t, "pos") /\ stmtsLock = t
        /\ Preparing(u, "named") /\ namedStmtsLock = u

\* C14 -- the maps of a Tx are guarded against concurrent use: no two
\* goroutines are ever about to access the same map of a Tx, one of them to
\* write it, with nothing ordering them, and so the runtime never ends the
\* process over a concurrent map access.
TxMapAccessExclusive ==
    \A t \in Threads : ~TxMapRace(t) /\ pc[t] # "fatal"

\* C15 -- resolution failure short-circuits: when the pool-level resolve of
\* a Cache or Tx method ends without a statement (the method returns and the
\* pool map has no entry for its query), the method returns the very error
\* the prepare call gave, has executed nothing, has re-bound nothing, and
\* every cache and the database are as they were.
ResolveFailureShortCircuits ==
    [][\A t \in Threads :
          (pc[t] \in {"lock", "prepare"} /\ pc'[t] = "done"
             /\ Pool(op[t].ns)'[op[t].query] = NoStmt) =>
              /\ pc[t] = "lock" => err'[t] = PrepareRefused(t)
              /\ pc[t] = "prepare" => err'[t] \in PrepareOutcomes(t)
              /\ err'[t] # NoErr
              /\ handle'[t] = NoStmt
              /\ ran'[t] = NoStmt
              /\ bound' = bound
              /\ UNCHANGED <<stmts, namedStmts, txStmts, txNamedStmts, dataVars>>]_vars

\* A Tx method and a Cache method have both returned the error of their
\* failed prepare call; nothing was re-bound and nothing is cached.
ResolveFailureShortCircuitsWitness ==
    \E t, u \in Threads :
        /\ ResolveFailed(t) /\ op[t].scope # PoolScope /\ err[t] = "PrepareError"
        /\ ResolveFailed(u) /\ op[u].scope = PoolScope
        /\ bound = {}
        /\ \A ns \in Namespaces : Pool(ns) = EmptyMap
        /\ \A x \in Txs, ns \in Namespaces : TxMap(x, ns) = EmptyMap

\* Goroutine t's method executes its statement in this step.
Executes(t) == ran[t] = NoStmt /\ ran'[t] # NoStmt

\* C16 -- execution failure does not touch the cache: a step in which a
\* method executes its statement and the driver fails returns the driver's
\* error as it is; the statement resolved is the pool's entry for the query
\* afterwards (and the Tx's, for a Tx method), and no other entry of any map
\* changes.  A pool map changes only in the step that ends a prepare call of
\* its namespace, a Tx map only in the step that re-binds into that Tx.
ExecFailureKeepsCache ==
    [][/\ \A t \in Threads :
             LET ns == op[t].ns
                 q == op[t].query
                 x == op[t].scope
             IN  (Executes(t) /\ ExecError(t, ran'[t]) # NoErr) =>
                    /\ err'[t] = ExecError(t, ran'[t])
                    /\ Pool(ns)'[q] = PoolResolved(t)'
                    /\ Pool(ns)'[q] # NoStmt
                    /\ x # PoolScope => TxMap(x, ns)'[q] = handle'[t]
                    /\ \A n \in Namespaces, r \in Queries :
                          (<<n, r>> # <<ns, q>> \/ Pool(n)[r] # NoStmt) =>
                              Pool(n)'[r] = Pool(n)[r]
                    /\ \A y \in Txs, n \in Namespaces, r \in Queries :
                          (<<y, n, r>> # <<x, ns, q>> \/ pc[t] # "bind") =>
                              TxMap(y, n)'[r] = TxMap(y, n)[r]
       /\ \A ns \in Namespaces :
             Pool(ns)' # Pool(ns) => \E t \in Threads : Preparing(t, ns) /\ pc'[t] # pc[t]
       /\ \A x \in Txs, ns \in Namespaces :
             TxMap(x, ns)' # TxMap(x, ns) =>
                 \E t \in Threads : /\ pc[t] = "bind" /\ pc'[t] # pc[t]
                                    /\ op[t].scope = x /\ op[t].ns = ns]_vars

\* A Cache method has failed in the execution of a statement that an earlier
\* method had resolved: the entry is still the one statement ever prepared
\* for the query.
ExecFailureKeepsCacheWitness ==
    \E t \in Threads :
        /\ pc[t] = "done"
        /\ op[t].scope = PoolScope
        /\ ran[t] # NoStmt
        /\ err[t] = "ExecutionError"
        /\ ops = MaxOps
        /\ Pool(op[t].ns)[op[t].query] = ran[t]
        /\ prepareCalls[<<op[t].ns, op[t].query>>] = 1
        /\ \A u \in Threads \ {t} : pc[u] = "idle"

\* C17 -- repeated use hits the cache across all variants: a Cache method,
\* plain or Context, insert- or select-style, that finds an entry for its
\* query executes that very statement, with no prepare call and the result
\* the driver gives for that statement on the data as it stands; and any two
\* Cache methods that executed the same query of the same namespace
\* executed the same statement, whichever variants they were.
RepeatedUseHitsCache ==
    [][/\ \A t \in Threads :
             LET ns == op[t].ns
                 q == op[t].query
             IN  (op[t].scope = PoolScope /\ pc[t] = "lock" /\ pc'[t] # "lock"
                    /\ Pool(ns)[q] # NoStmt) =>
                     /\ ran'[t] = Pool(ns)[q]
                     /\ handle'[t] = Pool(ns)[q]
                     /\ err'[t] = ExecError(t, Pool(ns)[q])
                     /\ prepareCalls' = prepareCalls
                     /\ prepared' = prepared
                     /\ Pool(ns)' = Pool(ns)
       /\ \A t, u \in Threads :
             (op'[t].scope = PoolScope /\ op'[u].scope = PoolScope
                /\ op'[t].ns = op'[u].ns /\ op'[t].query = op'[u].query
                /\ ran'[t] # NoStmt /\ ran'[u] # NoStmt) =>
                 ran'[t] = ran'[u]]_vars

\* A plain and a Context select of the Cache on the same query have
\* executed the same statement with the same result after one prepare call.
RepeatedUseHitsCacheWitness ==
    \E t, u \in Threads, ns \in Namespaces :
        /\ pc[t] = "done" /\ pc[u] = "done"
        /\ op[t] = [scope |-> PoolScope, ns |-> ns, ctx |-> FALSE, query |-> "SELECT"]
        /\ op[u] = [scope |-> PoolScope, ns |-> ns, ctx |-> TRUE, query |-> "SELECT"]
        /\ ran[t] # NoStmt
        /\ ran[t] = ran[u]
        /\ err[t] = "NoRows"
        /\ err[u] = "NoRows"
        /\ prepareCalls[<<ns, "SELECT">>] = 1

\* The prepare calls issued so far, over all namespaces and queries.
TotalPrepareCalls ==
    prepareCalls[<<"pos", "INSERT">>] + prepareCalls[<<"pos", "SELECT">>]
      + prepareCalls[<<"named", "INSERT">>] + prepareCalls[<<"named", "SELECT">>]

\* C18 -- no internal retries: a method issues its prepare call only in the
\* step that leaves the lock, and one at most; it re-binds only in the one
\* step that takes it from its Tx-level resolve to its result, and one
\* statement at most; and it executes one statement at most, in its last
\* step.
NoInternalRetries ==
    [][\A t \in Threads :
          pc'[t] # pc[t] =>
              /\ TotalPrepareCalls' <= TotalPrepareCalls + 1
              /\ pc[t] # "lock" => prepareCalls' = prepareCalls
              /\ Cardinality(bound' \ bound) <= 1
              /\ pc'[t] # "done" => (bound' = bound /\ ran'[t] = NoStmt)
              /\ pc[t] = "done" => bound' = bound]_vars

\* The statements a pool map holds.
PoolStmts(ns) == {Pool(ns)[q] : q \in Queries} \ {NoStmt}

\* C19 -- no handle is leaked and keys match handles: while no prepare call
\* is in flight, the statements the driver has prepared are exactly those
\* the two pool maps hold; each entry was prepared from the query text it is
\* stored under, in the namespace of its map; and the statement a resolve
\* hands to its caller was prepared for the caller's query and namespace.
NoHandleLeaked ==
    /\ (\A t \in Threads : pc[t] # "prepare") =>
           prepared = PoolStmts("pos") \cup PoolStmts("named")
    /\ \A ns \in Namespaces, q \in Queries :
           Pool(ns)[q] # NoStmt =>
               /\ Pool(ns)[q].query = q
               /\ Pool(ns)[q].ns = ns
               /\ Pool(ns)[q] \in prepared
    /\ \A t \in Threads :
           handle[t] # NoStmt =>
               /\ PoolResolved(t).query = op[t].query
               /\ PoolResolved(t).ns = op[t].ns
               /\ PoolResolved(t) \in prepared

\* Two statements have been prepared, one per query text, and both are in
\* the pool map of their namespace, each under its own text.
NoHandleLeakedWitness ==
    \E ns \in Namespaces :
        /\ \A t \in Threads : pc[t] # "prepare"
        /\ Cardinality(prepared) = 2
        /\ prepared = PoolStmts(ns)
        /\ \A q \in Queries : Pool(ns)[q].query = q
        /\ \E t \in Threads : pc[t] = "done" /\ handle[t] \in prepared

\* C20 -- pool-level resolution is one critical section: per namespace at
\* most one goroutine is between its lookup and its store, that is, inside
\* the prepare call; it holds the lock of the namespace, and the lock is
\* held by nobody else -- whatever queries the goroutines resolve.
ResolveIsCriticalSection ==
    \A ns \in Namespaces :
        /\ Cardinality({t \in Threads : Preparing(t, ns)}) <= 1
        /\ \A t \in Threads : Preparing(t, ns) => PoolLock(ns) = t
        /\ PoolLock(ns) # NoThread => Preparing(PoolLock(ns), ns)

\* One goroutine is inside the prepare call of a query while another waits
\* for the lock to resolve a different query of the same namespace.
ResolveIsCriticalSectionWitness ==
    \E t, u \in Threads :
        /\ Preparing(t, op[t].ns)
        /\ PoolLock(op[t].ns) = t
        /\ pc[u] = "lock"
        /\ op[u].ns = op[t].ns
        /\ op[u].query # op[t].query
        /\ ~ENABLED ResolveLock(u)

\* The pool-level statement of query q in namespace ns has been re-bound
\* into transaction x.
Rebound(x, ns, q) ==
    \E b \in bound : /\ b.tx = x
                     /\ b.parent.kind = "stmt"
                     /\ b.parent.ns = ns
                     /\ b.parent.query = q

\* C21 -- the Tx-level resolve memoizes the re-bind: once the statement of a
\* query has been re-bound into an open Tx, no later method of that Tx on
\* the query calls the pool-level resolve or re-binds the pool-level
\* statement again.
TxResolveMemoized ==
    [][\A t \in Threads :
          LET x == op[t].scope
              ns == op[t].ns
              q == op[t].query
          IN  (x # PoolScope /\ pc[t] = "txlookup" /\ pc'[t] # pc[t]
                 /\ txState[x] = "open" /\ Rebound(x, ns, q)) =>
                  /\ pc'[t] # "lock"
                  /\ \A b \in bound' \ bound : b.parent.kind # "stmt"]_vars

\* C22 -- every Tx method executes directly on the resolved handle: the
\* statement a Tx method has executed is the one its resolve returned, the
\* entry of the Tx map for its query, and a method that found that entry
\* has re-bound nothing.
TxExecutesResolvedHandle ==
    [][\A t \in Threads :
          LET x == op[t].scope
              ns == op[t].ns
              q == op[t].query
          IN  (x # PoolScope /\ Executes(t)) =>
                  /\ ran'[t] = handle'[t]
                  /\ ran'[t] = TxMap(x, ns)'[q]
                  /\ pc[t] = "txlookup" => bound' = bound]_vars

\* C23 -- Begin / BeginTx: a step that begins a Tx leaves it open with both
\* of its maps empty; a Begin that fails returns the error and leaves every
\* Tx as it was; either way both pool maps and both locks are unchanged; and
\* Begin waits for no lock: on an open database it can proceed whenever a Tx
\* is left to begin, whoever holds the locks.
BeginStartsEmpty ==
    [][/\ \A x \in Txs :
             (txState[x] = "unused" /\ txState'[x] # "unused") =>
                 /\ txState'[x] = "open"
                 /\ txStmts'[x] = EmptyMap
                 /\ txNamedStmts'[x] = EmptyMap
                 /\ \A y \in Txs \ {x} :
                       /\ txState'[y] = txState[y]
                       /\ txStmts'[y] = txStmts[y]
                       /\ txNamedStmts'[y] = txNamedStmts[y]
                 /\ UNCHANGED cacheVars
       /\ \A t \in Threads :
             (pc[t] = "idle" /\ pc'[t] = "done") =>
                 /\ err'[t] = "TransactionError"
                 /\ UNCHANGED <<cacheVars, txVars>>
       /\ \A t \in Threads :
             (pc[t] = "idle" /\ ~dbClosed /\ \E x \in Txs : txState[x] = "unused") =>
                 ENABLED Begin(t)]_vars

\* A Tx is open with empty maps while the pool holds a statement and a
\* goroutine holds a lock inside its prepare call, and a Begin on the
\* closed database has returned its error.
BeginStartsEmptyWitness ==
    \E x \in Txs, t, u \in Threads :
        /\ txState[x] = "open"
        /\ txStmts[x] = EmptyMap
        /\ txNamedStmts[x] = EmptyMap
        /\ stmts # EmptyMap
        /\ pc[u] = "prepare"
        /\ pc[t] = "done" /\ op[t] = NoOp /\ err[t] = "TransactionError"

\* C24 -- Close only closes the connection: the step that closes the
\* database changes no pool map, no Tx map, no lock and no statement; and on
\* the closed database a resolve that finds an entry for its query returns
\* that entry and issues no prepare call.
CloseKeepsCaches ==
    [][/\ (~dbClosed /\ dbClosed') =>
             UNCHANGED <<cacheVars, txVars, driverVars, bound, handle, ran>>
       /\ \A t \in Threads :
             LET ns == op[t].ns
                 q == op[t].query
             IN  (dbClosed /\ pc[t] = "lock" /\ pc'[t] # "lock"
                    /\ Pool(ns)[q] # NoStmt) =>
                     /\ PoolResolved(t)' = Pool(ns)[q]
                     /\ Pool(ns)' = Pool(ns)
                     /\ prepareCalls' = prepareCalls]_vars

\* Two Cache selects of one query ran on the one statement prepared for it,
\* the first before Close and the second, which found the entry, after it.
CloseKeepsCachesWitness ==
    \E t, u \in Threads, ns \in Namespaces :
        /\ dbClosed
        /\ pc[t] = "done" /\ pc[u] = "done"
        /\ op[t].scope = PoolScope /\ op[u].scope = PoolScope
        /\ op[t].ns = ns /\ op[u].ns = ns
        /\ op[t].query = "SELECT" /\ op[u].query = "SELECT"
        /\ ~op[t].ctx /\ ~op[u].ctx
        /\ err[u] = "NoRows"
        /\ err[t] = "ExecutionError"
        /\ handle[t] = Pool(ns)["SELECT"]
        /\ handle[t] = handle[u]
        /\ prepareCalls[<<ns, "SELECT">>] = 1

\* Goroutine t is inside a resolve.
Resolving(t) == pc[t] \in {"txlookup", "lock", "prepare", "bind"}

\* C25 -- lock discipline and progress: a lock is held only by a goroutine
\* inside the prepare call of that lock's namespace, so it is released on
\* every return path, nobody holds both locks, a goroutine looking up in or
\* re-binding into its Tx holds none, and both are free when no resolve is
\* in progress; and, every prepare call returning, every resolve returns:
\* again and again no resolve is in progress.
LockDiscipline ==
    /\ [](\A ns \in Namespaces :
             PoolLock(ns) # NoThread => Preparing(PoolLock(ns), ns))
    /\ [](\A t \in Threads : ~(stmtsLock = t /\ namedStmtsLock = t))
    /\ [](\A t \in Threads :
             pc[t] \in {"txlookup", "bind", "done", "idle"} =>
                 (stmtsLock # t /\ namedStmtsLock # t))
    /\ []((\A t \in Threads : ~Resolving(t)) =>
             (stmtsLock = NoThread /\ namedStmtsLock = NoThread))
    /\ []<>(\A t \in Threads : ~Resolving(t))

\* One method has returned the error of its failed prepare call and a Tx
\* method has returned after a successful prepare and re-bind; no resolve
\* is in progress and both locks are free.
LockDisciplineWitness ==
    \E t, u \in Threads :
        /\ ResolveFailed(t) /\ err[t] = "PrepareError"
        /\ pc[u] = "done" /\ op[u].scope # PoolScope /\ handle[u] # NoStmt
        /\ op[u].ns = op[t].ns
        /\ stmtsLock = NoThread
        /\ namedStmtsLock = NoThread

\* The statements obtained by re-binding the pool-level statement of query q
\* in namespace ns into transaction x.
Rebinds(x, ns, q) ==
    {b \in bound : /\ b.tx = x
                   /\ b.parent.kind = "stmt"
                   /\ b.parent.ns = ns
                   /\ b.parent.query = q}

\* C26 -- concurrent use of one Tx: the pool-level statement of a query is
\* re-bound into a Tx once at most, and every goroutine whose resolve of the
\* query on that Tx has returned holds the statement the Tx map stores.
SharedTxOneRebind ==
    /\ \A x \in Txs, ns \in Namespaces, q \in Queries :
           Cardinality(Rebinds(x, ns, q)) <= 1
    /\ \A t \in Threads :
           (pc[t] = "done" /\ op[t].scope # PoolScope /\ handle[t] # NoStmt) =>
               handle[t] = TxMap(op[t].scope, op[t].ns)[op[t].query]

====
